---- MODULE Spec2Model ----
(***************************************************************************)
(* DigiBuster technical support API (backend/server.py).                   *)
(*                                                                         *)
(* The MongoDB collections db.users and db.tickets are sequences in        *)
(* insertion (natural) order.  A handler is split at the awaits across     *)
(* which another request can change what it reads or writes: register      *)
(* (find_one, insert_one), update_ticket (find_one, update_one, find_one)   *)
(* and get_dashboard_stats (one step per count_documents).  The other      *)
(* handlers read the store once after authentication and are one step.     *)
(*                                                                         *)
(* Time is counted in hours.  A handler that stores a timestamp            *)
(* (datetime.utcnow()) reads a clock value later than every value read     *)
(* before, so stored timestamps are ordered as they were taken.            *)
(***************************************************************************)
EXTENDS Integers, Sequences, FiniteSets, TLC

VARIABLES
    users,      \* db.users: sequence of user documents
    tickets,    \* db.tickets: sequence of ticket documents
    now,        \* the clock read by datetime.utcnow(), in hours
    token,      \* the access token the client holds (from its last login)
    inflight,   \* requests suspended at an await, with their local variables
    resp        \* the HTTP response produced by the last step, or NoResp

vars == <<users, tickets, now, token, inflight, resp>>

-----------------------------------------------------------------------------
(* Bounds of the model *)

MaxClock == 3           \* timestamps are taken while now < MaxClock
MaxTime == 25           \* time passes while now <= MaxTime
MaxRegister == 2        \* register requests suspended at the insert at the same time
MaxStats == 1           \* dashboard requests suspended at a count at the same time
MaxStatsClock == 1      \* SpecStats: timestamps taken are at most MaxStatsClock
MaxBacklogClock == 2    \* SpecBacklog: timestamps taken are at most MaxBacklogClock
MaxGatewayClock == 1    \* SpecGateway: timestamps taken are at most MaxGatewayClock

(* Program constants *)

JWT_EXPIRATION_HOURS == 24
to_list_length == 1000           \* the length given to to_list (lines 211, 214)

None == "None"                   \* None where a string is expected
NoDoc == [none |-> TRUE]         \* None where a document is expected
PyJWTError == [error |-> "PyJWTError"]
NoArg == [none |-> TRUE]
NoResp == [op |-> "none"]
NoToken == [kind |-> "none"]

CUSTOMER == "customer"
AGENT == "agent"
OPEN == "open"
IN_PROGRESS == "in_progress"
RESOLVED == "resolved"
CLOSED == "closed"
TicketStatus == {OPEN, IN_PROGRESS, RESOLVED, CLOSED}

-----------------------------------------------------------------------------
(* Request bodies the clients send *)

UserCreate(email, password, full_name, role) ==
    [email |-> email, password |-> password, full_name |-> full_name, role |-> role]

UserCreates ==
    { UserCreate("alice@test.com", "pw-a", "Alice", CUSTOMER),
      UserCreate("bob@test.com", "pw-b", "Bob", CUSTOMER),
      UserCreate("carol@test.com", "pw-c", "Carol", AGENT),
      UserCreate("alice@test.com", "pw-m", "Mallory", AGENT) }

UserLogin(email, password) == [email |-> email, password |-> password]

UserLogins ==
    { UserLogin("alice@test.com", "pw-a"),
      UserLogin("alice@test.com", "pw-m"),
      UserLogin("bob@test.com", "pw-b"),
      UserLogin("carol@test.com", "pw-c"),
      UserLogin("carol@test.com", "wrong"),
      UserLogin("invalid@test.com", "wrong") }

TicketCreate(title, description, category, priority) ==
    [title |-> title, description |-> description, category |-> category,
     priority |-> priority]

TicketCreates ==
    { TicketCreate("Test Hardware Issue", "My computer won't start", "hardware", "high"),
      TicketCreate("Printer", "Out of toner", "other", "medium") }

TicketUpdate(status, agent_id, agent_name) ==
    [status |-> status, agent_id |-> agent_id, agent_name |-> agent_name]

TicketUpdates ==
    { TicketUpdate(IN_PROGRESS, None, None),
      TicketUpdate(RESOLVED, "u3", "Carol"),
      TicketUpdate(None, "", "") }

-----------------------------------------------------------------------------
(* Helper functions *)

hash_password(password) == [bcrypt |-> password]

verify_password(password, hashed_password) == hashed_password = hash_password(password)

\* jwt.encode of the payload with the expiry claim added
create_access_token(data, t) ==
    [kind |-> "jwt", sig |-> "JWT_SECRET", sub |-> data.sub,
     exp |-> t + JWT_EXPIRATION_HOURS]

\* jwt.decode with the expiry left unchecked
jwt_decode_any_age(credentials, t) ==
    IF credentials.kind # "jwt" THEN PyJWTError
    ELSE IF credentials.sig # "JWT_SECRET" THEN PyJWTError
    ELSE [sub |-> credentials.sub]

\* jwt.decode: the payload, or PyJWTError for a token that is malformed,
\* not signed with JWT_SECRET, or whose exp has passed
jwt_decode(credentials, t) ==
    IF credentials.kind # "jwt" THEN PyJWTError
    ELSE IF credentials.sig # "JWT_SECRET" THEN PyJWTError
    ELSE IF credentials.exp <= t THEN PyJWTError
    ELSE [sub |-> credentials.sub]

\* a MongoDB filter is a document of field values; a document matches it
\* when it has each of these values ({} matches every document)
Matches(doc, filter) == \A k \in DOMAIN filter : doc[k] = filter[k]

\* the position of the first document matching the filter, 0 when none does
FirstIndex(coll, filter) ==
    IF \E i \in 1..Len(coll) : Matches(coll[i], filter)
    THEN CHOOSE i \in 1..Len(coll) :
            Matches(coll[i], filter) /\ \A j \in 1..(i-1) : ~Matches(coll[j], filter)
    ELSE 0

\* db.<collection>.find_one(filter): the first matching document, or None
find_one(coll, filter) ==
    IF FirstIndex(coll, filter) = 0 THEN NoDoc ELSE coll[FirstIndex(coll, filter)]

\* db.<collection>.find(filter): the matching documents in natural order
find(coll, filter) ==
    LET Selected(doc) == Matches(doc, filter) IN SelectSeq(coll, Selected)

\* User(**user): the model's fields of a user document (the password is
\* no field of User and is dropped)
User(doc) ==
    [id |-> doc.id, email |-> doc.email, full_name |-> doc.full_name, role |-> doc.role,
     is_active |-> doc.is_active]

\* UserResponse(**user.dict())
UserResponse(u) ==
    [id |-> u.id, email |-> u.email, full_name |-> u.full_name, role |-> u.role,
     is_active |-> u.is_active]

\* str(uuid.uuid4()): an identifier no earlier call returned; n counts the
\* calls made for the collection
uuid4(prefix, n) == prefix \o ToString(n)

\* ticket ids a client asks for: the ids handed out so far and one that
\* names no ticket
TicketIds == { uuid4("t", i) : i \in 1..MaxClock } \cup {"missing"}

HTTPException(status_code, detail) == [status_code |-> status_code, detail |-> detail]

\* get_current_user with a lookup whose filter is empty
get_current_user_any(credentials, t, userColl) ==
    LET payload == jwt_decode(credentials, t) IN
    IF payload = PyJWTError
    THEN HTTPException(401, "Invalid authentication credentials")
    ELSE IF payload.sub = None
    THEN HTTPException(401, "Invalid authentication credentials")
    ELSE LET user == find_one(userColl, <<>>) IN
         IF user = NoDoc THEN HTTPException(401, "User not found")
         ELSE User(user)

\* get_current_user: the stored user of the token's subject, or the 401 raised
get_current_user(credentials, t, userColl) ==
    LET payload == jwt_decode(credentials, t) IN
    IF payload = PyJWTError
    THEN HTTPException(401, "Invalid authentication credentials")
    ELSE IF payload.sub = None
    THEN HTTPException(401, "Invalid authentication credentials")
    ELSE LET user == find_one(userColl, [id |-> payload.sub]) IN
         IF user = NoDoc THEN HTTPException(401, "User not found")
         ELSE User(user)

IsException(x) == "status_code" \in DOMAIN x

\* the tokens of a login at time 0 of each stored user with the role
SessionsOf(role) ==
    { create_access_token([sub |-> users[i].id], 0) :
        i \in { j \in 1..Len(users) : users[j].role = role } }

Sessions == SessionsOf(CUSTOMER) \cup SessionsOf(AGENT)

\* what a client can put in the Authorization header: the token it holds
\* from its last login, the token of a login of a stored user at time 0,
\* a token issued to the first user JWT_EXPIRATION_HOURS before time 0, or
\* a string it made up (not a JWT, a JWT signed with another key, and with
\* the secret of line 26 a signed JWT without a subject or naming no stored
\* user)
Credentials ==
    (IF token = NoToken THEN {} ELSE {token}) \cup Sessions \cup
    { create_access_token([sub |-> "u1"], 0 - JWT_EXPIRATION_HOURS),
      [kind |-> "garbage"],
      [kind |-> "jwt", sig |-> "other", sub |-> "u1", exp |-> JWT_EXPIRATION_HOURS],
      create_access_token([sub |-> None], 0),
      create_access_token([sub |-> "ghost"], 0) }

\* a response, with the request it answers: the endpoint, the credentials
\* sent, the identity get_current_user attached (NoDoc when none was) and
\* the request's arguments
Response(op, cred, caller, arg, status, body) ==
    [op |-> op, cred |-> cred, caller |-> caller, arg |-> arg, status |-> status,
     body |-> body]

\* the response FastAPI makes of a raised HTTPException
Raise(op, cred, caller, arg, exc) ==
    Response(op, cred, caller, arg, exc.status_code, [detail |-> exc.detail])

-----------------------------------------------------------------------------
Init ==
    /\ users = <<>>
    /\ tickets = <<>>
    /\ now = 0
    /\ token = NoToken
    /\ inflight = {}
    /\ resp = NoResp

-----------------------------------------------------------------------------
(* POST /api/auth/register *)

\* lines 153-155: the lookup by email; the request goes on to the insert
\* when no document has the email
register_find(user_data) ==
    LET existing_user == find_one(users, [email |-> user_data.email]) IN
    IF existing_user # NoDoc
    THEN /\ resp' = Raise("register", NoToken, NoDoc, user_data,
                          HTTPException(400, "Email already registered"))
         /\ UNCHANGED <<users, tickets, now, token, inflight>>
    ELSE /\ Cardinality(inflight) < MaxRegister
         /\ inflight' = inflight \cup {[op |-> "register", user_data |-> user_data]}
         /\ resp' = NoResp
         /\ UNCHANGED <<users, tickets, now, token>>

\* lines 158-166: the document of a new user, with the hashed password
NewUser(user_data, id) ==
    [id |-> id,
     email |-> user_data.email,
     full_name |-> user_data.full_name,
     role |-> user_data.role,
     is_active |-> TRUE,
     password |-> hash_password(user_data.password)]

\* lines 158-169: hash the password, build the user, insert it
register_insert(r) ==
    LET user_dict == NewUser(r.user_data, uuid4("u", Len(users) + 1))
        user == User(user_dict)
    IN
    /\ users' = Append(users, user_dict)
    /\ inflight' = inflight \ {r}
    /\ resp' = Response("register", NoToken, NoDoc, r.user_data, 200, UserResponse(user))
    /\ UNCHANGED <<tickets, now, token>>

\* login that answers an unknown email with its own error
login_user_not_found(user_data) ==
    LET user == find_one(users, [email |-> user_data.email]) IN
    IF user = NoDoc
    THEN /\ resp' = Raise("login", NoToken, NoDoc, user_data,
                          HTTPException(404, "User not found"))
         /\ UNCHANGED <<users, tickets, now, token, inflight>>
    ELSE IF ~verify_password(user_data.password, user["password"])
    THEN /\ resp' = Raise("login", NoToken, NoDoc, user_data,
                          HTTPException(401, "Invalid email or password"))
         /\ UNCHANGED <<users, tickets, now, token, inflight>>
    ELSE LET access_token == create_access_token([sub |-> user.id], now) IN
         /\ token' = access_token
         /\ resp' = Response("login", NoToken, NoDoc, user_data, 200,
                             [access_token |-> access_token, token_type |-> "bearer",
                              user |-> UserResponse(user)])
         /\ UNCHANGED <<users, tickets, now, inflight>>

(* POST /api/auth/login *)
login(user_data) ==
    LET user == find_one(users, [email |-> user_data.email]) IN
    IF user = NoDoc \/ ~verify_password(user_data.password, user["password"])
    THEN /\ resp' = Raise("login", NoToken, NoDoc, user_data,
                          HTTPException(401, "Invalid email or password"))
         /\ UNCHANGED <<users, tickets, now, token, inflight>>
    ELSE LET access_token == create_access_token([sub |-> user.id], now) IN
         /\ token' = access_token
         /\ resp' = Response("login", NoToken, NoDoc, user_data, 200,
                             [access_token |-> access_token, token_type |-> "bearer",
                              user |-> UserResponse(user)])
         /\ UNCHANGED <<users, tickets, now, inflight>>

(* GET /api/auth/me *)
get_current_user_info(cred) ==
    LET current_user == get_current_user(cred, now, users) IN
    /\ resp' = IF IsException(current_user)
               THEN Raise("me", cred, NoDoc, NoArg, current_user)
               ELSE Response("me", cred, current_user, NoArg, 200,
                             UserResponse(current_user))
    /\ UNCHANGED <<users, tickets, now, token, inflight>>

-----------------------------------------------------------------------------
(* Ticket store *)

\* Ticket with the default of updated_at evaluated once, when the class is
\* defined (time 0), instead of at every construction
Ticket_updated_at_default(id, ticket_data, current_user, t) ==
    [id |-> id,
     title |-> ticket_data.title,
     description |-> ticket_data.description,
     category |-> ticket_data.category,
     priority |-> ticket_data.priority,
     status |-> OPEN,
     customer_id |-> current_user.id,
     customer_name |-> current_user.full_name,
     agent_id |-> None,
     agent_name |-> None,
     created_at |-> t,
     updated_at |-> 0]

\* Ticket(...): the document of a new ticket; both timestamps default to
\* the time of construction
Ticket(id, ticket_data, current_user, t) ==
    [id |-> id,
     title |-> ticket_data.title,
     description |-> ticket_data.description,
     category |-> ticket_data.category,
     priority |-> ticket_data.priority,
     status |-> OPEN,
     customer_id |-> current_user.id,
     customer_name |-> current_user.full_name,
     agent_id |-> None,
     agent_name |-> None,
     created_at |-> t,
     updated_at |-> t]

\* cursor.to_list(length): at most length documents
to_list(cursor, length) ==
    IF Len(cursor) <= length THEN cursor ELSE SubSeq(cursor, 1, length)

\* db.tickets.count_documents(filter)
count_documents(coll, filter) == Len(find(coll, filter))

\* a value Python treats as true in "if value:"
Truthy(value) == value # None /\ value # ""

\* update_data with every field of the request, supplied or not
UpdateData_every_field(ticket_update, t) ==
    ("status" :> ticket_update.status)
    @@ ("agent_id" :> ticket_update.agent_id)
    @@ ("agent_name" :> ticket_update.agent_name)
    @@ ("updated_at" :> t)

\* update_data with the timestamp under the key created_at
UpdateData_created_at(ticket_update, t) ==
    (IF Truthy(ticket_update.status) THEN "status" :> ticket_update.status ELSE <<>>)
    @@ (IF Truthy(ticket_update.agent_id) THEN "agent_id" :> ticket_update.agent_id ELSE <<>>)
    @@ (IF Truthy(ticket_update.agent_name)
        THEN "agent_name" :> ticket_update.agent_name ELSE <<>>)
    @@ ("created_at" :> t)

\* lines 241-249: the $set document built from the fields supplied
UpdateData(ticket_update, t) ==
    (IF Truthy(ticket_update.status) THEN "status" :> ticket_update.status ELSE <<>>)
    @@ (IF Truthy(ticket_update.agent_id) THEN "agent_id" :> ticket_update.agent_id ELSE <<>>)
    @@ (IF Truthy(ticket_update.agent_name)
        THEN "agent_name" :> ticket_update.agent_name ELSE <<>>)
    @@ ("updated_at" :> t)

\* db.tickets.update_one({"id": ticket_id}, {"$set": update_data})
update_one(coll, ticket_id, update_data) ==
    LET i == FirstIndex(coll, [id |-> ticket_id]) IN
    IF i = 0 THEN coll
    ELSE [coll EXCEPT ![i] =
            [k \in DOMAIN coll[i] |->
                IF k \in DOMAIN update_data THEN update_data[k] ELSE coll[i][k]]]

\* create_ticket without the role check
create_ticket_any_role(cred, ticket_data) ==
    LET current_user == get_current_user(cred, now, users) IN
    IF IsException(current_user)
    THEN /\ resp' = Raise("create_ticket", cred, NoDoc, ticket_data, current_user)
         /\ UNCHANGED <<users, tickets, now, token, inflight>>
    ELSE LET ticket == Ticket(uuid4("t", Len(tickets) + 1), ticket_data,
                              current_user, now + 1) IN
         /\ now < MaxClock
         /\ now' = now + 1
         /\ tickets' = Append(tickets, ticket)
         /\ resp' = Response("create_ticket", cred, current_user, ticket_data, 200, ticket)
         /\ UNCHANGED <<users, token, inflight>>

(* POST /api/tickets *)
create_ticket(cred, ticket_data) ==
    LET current_user == get_current_user(cred, now, users) IN
    IF IsException(current_user)
    THEN /\ resp' = Raise("create_ticket", cred, NoDoc, ticket_data, current_user)
         /\ UNCHANGED <<users, tickets, now, token, inflight>>
    ELSE IF current_user.role # CUSTOMER
    THEN /\ resp' = Raise("create_ticket", cred, current_user, ticket_data,
                          HTTPException(403, "Only customers can create tickets"))
         /\ UNCHANGED <<users, tickets, now, token, inflight>>
    ELSE LET ticket == Ticket(uuid4("t", Len(tickets) + 1), ticket_data,
                              current_user, now + 1) IN
         /\ now < MaxClock
         /\ now' = now + 1
         /\ tickets' = Append(tickets, ticket)
         /\ resp' = Response("create_ticket", cred, current_user, ticket_data, 200, ticket)
         /\ UNCHANGED <<users, token, inflight>>

\* get_tickets with the agents' query for every caller
get_tickets_unscoped(cred) ==
    LET current_user == get_current_user(cred, now, users) IN
    /\ resp' =
         IF IsException(current_user)
         THEN Raise("get_tickets", cred, NoDoc, NoArg, current_user)
         ELSE Response("get_tickets", cred, current_user, NoArg, 200,
                [items |-> to_list(find(tickets, <<>>), to_list_length)])
    /\ UNCHANGED <<users, tickets, now, token, inflight>>

(* GET /api/tickets *)
get_tickets(cred) ==
    LET current_user == get_current_user(cred, now, users) IN
    /\ resp' =
         IF IsException(current_user)
         THEN Raise("get_tickets", cred, NoDoc, NoArg, current_user)
         ELSE IF current_user.role = CUSTOMER
         THEN Response("get_tickets", cred, current_user, NoArg, 200,
                [items |-> to_list(find(tickets, [customer_id |-> current_user.id]),
                                   to_list_length)])
         ELSE Response("get_tickets", cred, current_user, NoArg, 200,
                [items |-> to_list(find(tickets, <<>>), to_list_length)])
    /\ UNCHANGED <<users, tickets, now, token, inflight>>

\* lines 219-230: what get_ticket answers at time t over the two collections
get_ticket_response(cred, ticket_id, t, userColl, ticketColl) ==
    LET current_user == get_current_user(cred, t, userColl)
        ticket == find_one(ticketColl, [id |-> ticket_id])
        arg == [ticket_id |-> ticket_id]
    IN
    IF IsException(current_user)
    THEN Raise("get_ticket", cred, NoDoc, arg, current_user)
    ELSE IF ticket = NoDoc
    THEN Raise("get_ticket", cred, current_user, arg,
               HTTPException(404, "Ticket not found"))
    ELSE IF current_user.role = CUSTOMER /\ ticket.customer_id # current_user.id
    THEN Raise("get_ticket", cred, current_user, arg,
               HTTPException(403, "Access denied"))
    ELSE Response("get_ticket", cred, current_user, arg, 200, ticket)

\* get_ticket without the ownership check
get_ticket_any_owner(cred, ticket_id) ==
    LET current_user == get_current_user(cred, now, users)
        ticket == find_one(tickets, [id |-> ticket_id])
        arg == [ticket_id |-> ticket_id]
    IN
    /\ resp' =
         IF IsException(current_user)
         THEN Raise("get_ticket", cred, NoDoc, arg, current_user)
         ELSE IF ticket = NoDoc
         THEN Raise("get_ticket", cred, current_user, arg,
                    HTTPException(404, "Ticket not found"))
         ELSE Response("get_ticket", cred, current_user, arg, 200, ticket)
    /\ UNCHANGED <<users, tickets, now, token, inflight>>

(* GET /api/tickets/{ticket_id} *)
get_ticket(cred, ticket_id) ==
    /\ resp' = get_ticket_response(cred, ticket_id, now, users, tickets)
    /\ UNCHANGED <<users, tickets, now, token, inflight>>

\* update_ticket with the lookup before the role check
update_ticket_find_lookup_first(cred, ticket_id, ticket_update) ==
    LET current_user == get_current_user(cred, now, users)
        ticket == find_one(tickets, [id |-> ticket_id])
        arg == [ticket_id |-> ticket_id, ticket_update |-> ticket_update]
    IN
    IF IsException(current_user)
    THEN /\ resp' = Raise("update_ticket", cred, NoDoc, arg, current_user)
         /\ UNCHANGED <<users, tickets, now, token, inflight>>
    ELSE IF ticket = NoDoc
    THEN /\ resp' = Raise("update_ticket", cred, current_user, arg,
                          HTTPException(404, "Ticket not found"))
         /\ UNCHANGED <<users, tickets, now, token, inflight>>
    ELSE IF current_user.role # AGENT
    THEN /\ resp' = Raise("update_ticket", cred, current_user, arg,
                          HTTPException(403, "Only agents can update tickets"))
         /\ UNCHANGED <<users, tickets, now, token, inflight>>
    ELSE /\ now < MaxClock
         /\ now' = now + 1
         /\ inflight' = inflight \cup
                {[op |-> "update_ticket", at |-> "update_one", cred |-> cred,
                  current_user |-> current_user, arg |-> arg, ticket |-> ticket,
                  update_data |-> UpdateData(ticket_update, now + 1)]}
         /\ resp' = NoResp
         /\ UNCHANGED <<users, tickets, token>>

\* update_ticket that also lets the owner of the ticket update it
update_ticket_find_owner(cred, ticket_id, ticket_update) ==
    LET current_user == get_current_user(cred, now, users)
        ticket == find_one(tickets, [id |-> ticket_id])
        arg == [ticket_id |-> ticket_id, ticket_update |-> ticket_update]
    IN
    IF IsException(current_user)
    THEN /\ resp' = Raise("update_ticket", cred, NoDoc, arg, current_user)
         /\ UNCHANGED <<users, tickets, now, token, inflight>>
    ELSE IF ticket = NoDoc
    THEN /\ resp' = Raise("update_ticket", cred, current_user, arg,
                          HTTPException(404, "Ticket not found"))
         /\ UNCHANGED <<users, tickets, now, token, inflight>>
    ELSE IF current_user.role # AGENT /\ ticket.customer_id # current_user.id
    THEN /\ resp' = Raise("update_ticket", cred, current_user, arg,
                          HTTPException(403, "Only agents can update tickets"))
         /\ UNCHANGED <<users, tickets, now, token, inflight>>
    ELSE /\ now < MaxClock
         /\ now' = now + 1
         /\ inflight' = inflight \cup
                {[op |-> "update_ticket", at |-> "update_one", cred |-> cred,
                  current_user |-> current_user, arg |-> arg, ticket |-> ticket,
                  update_data |-> UpdateData(ticket_update, now + 1)]}
         /\ resp' = NoResp
         /\ UNCHANGED <<users, tickets, token>>

(* PUT /api/tickets/{ticket_id} *)

\* lines 234-249: the role check, the lookup, update_data and its timestamp
update_ticket_find(cred, ticket_id, ticket_update) ==
    LET current_user == get_current_user(cred, now, users)
        ticket == find_one(tickets, [id |-> ticket_id])
        arg == [ticket_id |-> ticket_id, ticket_update |-> ticket_update]
    IN
    IF IsException(current_user)
    THEN /\ resp' = Raise("update_ticket", cred, NoDoc, arg, current_user)
         /\ UNCHANGED <<users, tickets, now, token, inflight>>
    ELSE IF current_user.role # AGENT
    THEN /\ resp' = Raise("update_ticket", cred, current_user, arg,
                          HTTPException(403, "Only agents can update tickets"))
         /\ UNCHANGED <<users, tickets, now, token, inflight>>
    ELSE IF ticket = NoDoc
    THEN /\ resp' = Raise("update_ticket", cred, current_user, arg,
                          HTTPException(404, "Ticket not found"))
         /\ UNCHANGED <<users, tickets, now, token, inflight>>
    ELSE /\ now < MaxClock
         /\ now' = now + 1
         /\ inflight' = inflight \cup
                {[op |-> "update_ticket", at |-> "update_one", cred |-> cred,
                  current_user |-> current_user, arg |-> arg, ticket |-> ticket,
                  update_data |-> UpdateData(ticket_update, now + 1)]}
         /\ resp' = NoResp
         /\ UNCHANGED <<users, tickets, token>>

\* line 251: the store applies the $set
update_ticket_write(r) ==
    /\ tickets' = update_one(tickets, r.arg.ticket_id, r.update_data)
    /\ inflight' = (inflight \ {r}) \cup {[r EXCEPT !.at = "find_one"]}
    /\ resp' = NoResp
    /\ UNCHANGED <<users, now, token>>

\* lines 253-254: the ticket is read back and returned
update_ticket_return(r) ==
    LET updated_ticket == find_one(tickets, [id |-> r.arg.ticket_id]) IN
    /\ inflight' = inflight \ {r}
    /\ resp' = Response("update_ticket", r.cred, r.current_user, r.arg, 200,
                        updated_ticket)
    /\ UNCHANGED <<users, tickets, now, token>>

(* GET /api/dashboard/stats *)

\* the filters of the agent's counts for every caller
StatsFilter_unscoped(current_user, n) ==
    IF current_user.role = CUSTOMER
    THEN CASE n = 1 -> <<>>
           [] n = 2 -> [status |-> "open"]
           [] OTHER -> [status |-> "resolved"]
    ELSE CASE n = 1 -> <<>>
           [] n = 2 -> [status |-> "open"]
           [] n = 3 -> [status |-> "in_progress"]
           [] OTHER -> [status |-> "resolved"]

\* the filter of the n-th count_documents call of the handler
StatsFilter(current_user, n) ==
    IF current_user.role = CUSTOMER
    THEN CASE n = 1 -> [customer_id |-> current_user.id]
           [] n = 2 -> [customer_id |-> current_user.id, status |-> "open"]
           [] OTHER -> [customer_id |-> current_user.id, status |-> "resolved"]
    ELSE CASE n = 1 -> <<>>
           [] n = 2 -> [status |-> "open"]
           [] n = 3 -> [status |-> "in_progress"]
           [] OTHER -> [status |-> "resolved"]

\* the number of count_documents calls the handler makes
StatsQueries(current_user) == IF current_user.role = CUSTOMER THEN 3 ELSE 4

\* the record with the open count returned as the total as well
StatsBody_total_from_open(current_user, counts) ==
    IF current_user.role = CUSTOMER
    THEN [total_tickets |-> counts[2], open_tickets |-> counts[2],
          resolved_tickets |-> counts[3], role |-> "customer"]
    ELSE [total_tickets |-> counts[2], open_tickets |-> counts[2],
          in_progress_tickets |-> counts[3], resolved_tickets |-> counts[4],
          role |-> "agent"]

\* the record returned once every count is in
StatsBody(current_user, counts) ==
    IF current_user.role = CUSTOMER
    THEN [total_tickets |-> counts[1], open_tickets |-> counts[2],
          resolved_tickets |-> counts[3], role |-> "customer"]
    ELSE [total_tickets |-> counts[1], open_tickets |-> counts[2],
          in_progress_tickets |-> counts[3], resolved_tickets |-> counts[4],
          role |-> "agent"]

\* authentication and the first count_documents call
get_dashboard_stats(cred) ==
    LET current_user == get_current_user(cred, now, users) IN
    IF IsException(current_user)
    THEN /\ resp' = Raise("get_dashboard_stats", cred, NoDoc, NoArg, current_user)
         /\ UNCHANGED <<users, tickets, now, token, inflight>>
    ELSE /\ Cardinality({r \in inflight : r.op = "get_dashboard_stats"}) < MaxStats
         /\ inflight' = inflight \cup
                {[op |-> "get_dashboard_stats", cred |-> cred,
                  current_user |-> current_user,
                  counts |-> <<count_documents(tickets,
                                                StatsFilter(current_user, 1))>>]}
         /\ resp' = NoResp
         /\ UNCHANGED <<users, tickets, now, token>>

\* the next count_documents call; the last one returns the record
get_dashboard_stats_count(r) ==
    LET n == Len(r.counts) + 1
        counts == Append(r.counts,
                    count_documents(tickets, StatsFilter(r.current_user, n)))
    IN
    /\ IF n < StatsQueries(r.current_user)
       THEN /\ inflight' = (inflight \ {r}) \cup {[r EXCEPT !.counts = counts]}
            /\ resp' = NoResp
       ELSE /\ inflight' = inflight \ {r}
            /\ resp' = Response("get_dashboard_stats", r.cred, r.current_user, NoArg, 200,
                                StatsBody(r.current_user, counts))
    /\ UNCHANGED <<users, tickets, now, token>>

-----------------------------------------------------------------------------
(* Time passing while no handler runs *)
Elapse(d) ==
    /\ now + d <= MaxTime
    /\ now' = now + d
    /\ resp' = NoResp
    /\ UNCHANGED <<users, tickets, token, inflight>>

-----------------------------------------------------------------------------
(* The response leaves the server; the next step of any request follows *)
Deliver ==
    /\ resp # NoResp
    /\ resp' = NoResp
    /\ UNCHANGED <<users, tickets, now, token, inflight>>

-----------------------------------------------------------------------------
(* Registration and login on an empty database *)

NextAuth ==
    \/ /\ resp = NoResp
       /\ \/ \E d \in UserCreates : register_find(d)
          \/ \E r \in inflight : r.op = "register" /\ register_insert(r)
          \/ \E d \in UserLogins : login(d)
          \/ \E c \in Credentials : get_current_user_info(c)
    \/ Deliver

SpecAuth == Init /\ [][NextAuth]_vars

(* The database after Alice, Bob and Carol have registered, in this order *)

Registered ==
    << NewUser(UserCreate("alice@test.com", "pw-a", "Alice", CUSTOMER), "u1"),
       NewUser(UserCreate("bob@test.com", "pw-b", "Bob", CUSTOMER), "u2"),
       NewUser(UserCreate("carol@test.com", "pw-c", "Carol", AGENT), "u3") >>

InitRegistered ==
    /\ users = Registered
    /\ tickets = <<>>
    /\ now = 0
    /\ token = NoToken
    /\ inflight = {}
    /\ resp = NoResp

(* Tokens over time *)

NextToken ==
    \/ /\ resp = NoResp
       /\ \/ \E d \in UserLogins : login(d)
          \/ \E c \in Credentials : get_current_user_info(c)
          \/ \E d \in {1, JWT_EXPIRATION_HOURS - 1} : Elapse(d)
    \/ Deliver

SpecToken == InitRegistered /\ [][NextToken]_vars

(* The ticket endpoints *)

Next ==
    \/ /\ resp = NoResp
       /\ \/ \E c \in Credentials : get_current_user_info(c)
          \/ \E c \in Credentials, d \in TicketCreates : create_ticket(c, d)
          \/ \E c \in Credentials : get_tickets(c)
          \/ \E c \in Credentials, id \in TicketIds : get_ticket(c, id)
          \/ \E c \in Credentials, id \in TicketIds, u \in TicketUpdates :
                  update_ticket_find(c, id, u)
          \/ \E r \in inflight :
                  r.op = "update_ticket" /\ r.at = "update_one" /\ update_ticket_write(r)
          \/ \E r \in inflight :
                  r.op = "update_ticket" /\ r.at = "find_one" /\ update_ticket_return(r)
    \/ Deliver

Spec == InitRegistered /\ [][Next]_vars

(* The dashboard of every logged-in user beside the customers' ticket       *)
(* creations and the agents' updates                                       *)

NextStats ==
    \/ /\ resp = NoResp
       /\ \/ /\ \E c \in SessionsOf(CUSTOMER), d \in TicketCreates : create_ticket(c, d)
             /\ now' <= MaxStatsClock
          \/ /\ \E c \in SessionsOf(AGENT), id \in TicketIds, u \in TicketUpdates :
                     update_ticket_find(c, id, u)
             /\ now' <= MaxStatsClock
          \/ \E r \in inflight :
                  r.op = "update_ticket" /\ r.at = "update_one" /\ update_ticket_write(r)
          \/ \E r \in inflight :
                  r.op = "update_ticket" /\ r.at = "find_one" /\ update_ticket_return(r)
          \/ \E c \in Sessions : get_dashboard_stats(c)
          \/ \E r \in inflight :
                  r.op = "get_dashboard_stats" /\ get_dashboard_stats_count(r)
    \/ Deliver

\* the store after Alice has created three tickets and Bob one, and Carol
\* has resolved Alice's second ticket and taken up her third
DashboardTickets ==
    LET Alice == User(Registered[1])
        Bob == User(Registered[2])
        Created(n, current_user, t) ==
            Ticket(uuid4("t", n), TicketCreate("Printer", "Out of toner", "other", "medium"),
                   current_user, t)
    IN << Created(1, Alice, 0 - 6),
          update_one(<<Created(2, Alice, 0 - 5)>>, uuid4("t", 2),
                     UpdateData(TicketUpdate(RESOLVED, "u3", "Carol"), 0 - 2))[1],
          update_one(<<Created(3, Alice, 0 - 4)>>, uuid4("t", 3),
                     UpdateData(TicketUpdate(IN_PROGRESS, None, None), 0 - 1))[1],
          Created(4, Bob, 0 - 3) >>

InitDashboard ==
    /\ users = Registered
    /\ tickets = DashboardTickets
    /\ now = 0
    /\ token = NoToken
    /\ inflight = {}
    /\ resp = NoResp

SpecStats == InitDashboard /\ [][NextStats]_vars

(* Every endpoint behind get_current_user *)

NextGateway ==
    \/ /\ resp = NoResp
       /\ \/ \E c \in Credentials : get_current_user_info(c)
          \/ /\ \E c \in Credentials, d \in TicketCreates : create_ticket(c, d)
             /\ now' <= MaxGatewayClock
          \/ \E c \in Credentials : get_tickets(c)
          \/ \E c \in Credentials, id \in TicketIds : get_ticket(c, id)
          \/ /\ \E c \in Credentials, id \in TicketIds, u \in TicketUpdates :
                     update_ticket_find(c, id, u)
             /\ now' <= MaxGatewayClock
          \/ \E r \in inflight :
                  r.op = "update_ticket" /\ r.at = "update_one" /\ update_ticket_write(r)
          \/ \E r \in inflight :
                  r.op = "update_ticket" /\ r.at = "find_one" /\ update_ticket_return(r)
          \/ \E c \in Credentials : get_dashboard_stats(c)
          \/ \E r \in inflight :
                  r.op = "get_dashboard_stats" /\ get_dashboard_stats_count(r)
    \/ Deliver

SpecGateway == InitRegistered /\ [][NextGateway]_vars

(* Listing a store that is empty or holds to_list_length tickets of Alice *)

Backlog ==
    [n \in 1..to_list_length |->
        Ticket(uuid4("t", n), TicketCreate("Printer", "Out of toner", "other", "medium"),
               User(Registered[1]), n - to_list_length)]

InitBacklog ==
    /\ users = Registered
    /\ tickets \in {<<>>, Backlog}
    /\ now = 0
    /\ token = NoToken
    /\ inflight = {}
    /\ resp = NoResp

NextBacklog ==
    \/ /\ resp = NoResp
       /\ \/ /\ \E c \in Credentials, d \in TicketCreates : create_ticket(c, d)
             /\ now' <= MaxBacklogClock
          \/ \E c \in Credentials : get_tickets(c)
    \/ Deliver

SpecBacklog == InitBacklog /\ [][NextBacklog]_vars

-----------------------------------------------------------------------------
(* Properties *)

StoredIds == { users[i].id : i \in 1..Len(users) }
StoredEmails == { users[i].email : i \in 1..Len(users) }

\* C1: no two stored user records have the same email, in every reachable
\* state, also when the find-then-insert steps of register calls interleave.
C1_EmailUnique ==
    \A i, j \in 1..Len(users) : users[i].email = users[j].email => i = j

\* a token signed by this server for a stored user
IssuedToken(c) == c.kind = "jwt" /\ c.sig = "JWT_SECRET" /\ c.sub \in StoredIds

\* C2: a token issued at time t for user u carries the expiry t + 24 hours
\* and the subject u; presented at any time before its expiry it yields u,
\* presented at any time after it the request fails with the one 401 of an
\* invalid token.
C2_TokenLifetime ==
    /\ (resp.op = "login" /\ resp.status = 200) =>
          /\ resp.body.access_token.exp = now + 24
          /\ resp.body.access_token.sub = resp.body.user.id
          /\ resp.body.user.email = resp.arg.email
          /\ IssuedToken(resp.body.access_token)
    /\ (resp.op = "me" /\ IssuedToken(resp.cred)) =>
          /\ now < resp.cred.exp => resp.status = 200 /\ resp.body.id = resp.cred.sub
          /\ now > resp.cred.exp =>
                /\ resp.status = 401
                /\ resp.body = [detail |-> "Invalid authentication credentials"]

\* the token of a login at time 0 is refused one hour after its expiry
C2_Witness ==
    /\ token # NoToken
    /\ resp.op = "me"
    /\ resp.cred = token
    /\ token.exp = 24
    /\ now = 25
    /\ resp.status = 401

\* C3: every failing login, for an unknown email as for a wrong password,
\* is answered with the same status and message whatever the store holds,
\* and changes nothing stored.
C3_LoginFailuresAlike ==
    [][ (resp'.op = "login" /\ resp'.status # 200) =>
            /\ resp'.status = 401
            /\ resp'.body = [detail |-> "Invalid email or password"]
            /\ UNCHANGED <<users, tickets, now, token, inflight>> ]_vars

\* a login with a registered email and a wrong password has failed
C3_Witness ==
    /\ resp.op = "login"
    /\ resp.status = 401
    /\ resp.arg.email \in StoredEmails

ProtectedEndpoints ==
    {"me", "create_ticket", "get_tickets", "get_ticket", "update_ticket",
     "get_dashboard_stats"}

\* the token is malformed, wrongly signed, expired, lacks a subject or names
\* a subject that is not a stored user
Unauthenticated(c) ==
    \/ c.kind # "jwt"
    \/ c.sig # "JWT_SECRET"
    \/ c.exp <= now
    \/ c.sub = None
    \/ c.sub \notin StoredIds

\* u is the stored user whose id is the token's subject
IsSubjectOf(u, c) ==
    \E i \in 1..Len(users) :
        /\ users[i].id = c.sub
        /\ u = [id |-> users[i].id, email |-> users[i].email,
                full_name |-> users[i].full_name, role |-> users[i].role,
                is_active |-> users[i].is_active]

\* C4: on every endpoint behind get_current_user a request with such a token
\* is answered 401 with nothing read or written by the endpoint body; any
\* other request runs with the stored user whose id is the token's subject.
C4_Authenticated ==
    [][ /\ (resp'.op \in ProtectedEndpoints /\ Unauthenticated(resp'.cred)) =>
              /\ resp'.status = 401
              /\ resp'.caller = NoDoc
              /\ UNCHANGED <<users, tickets, now, token, inflight>>
        /\ (resp'.op \in ProtectedEndpoints /\ ~Unauthenticated(resp'.cred)) =>
              /\ resp'.status # 401
              /\ IsSubjectOf(resp'.caller, resp'.cred)
        /\ \A r \in inflight' :
              /\ ~Unauthenticated(r.cred)
              /\ IsSubjectOf(r.current_user, r.cred) ]_vars

\* an expired token was presented for the update of a stored ticket
C4_Witness ==
    /\ resp.op = "update_ticket"
    /\ resp.status = 401
    /\ resp.cred.kind = "jwt"
    /\ resp.cred.sig = "JWT_SECRET"
    /\ resp.cred.sub \in StoredIds
    /\ resp.cred.exp <= now
    /\ Len(tickets) > 0
    /\ resp.arg.ticket_id = tickets[1].id

\* the positions of the stored tickets with this id
Stored(ticket_id) == { i \in 1..Len(tickets) : tickets[i].id = ticket_id }

\* C5: an update attempted by a customer is answered 403 for every ticket
\* id, the customer's own tickets included, and leaves every stored ticket
\* as it was; a step that changes a stored ticket is the write of an update
\* request made by an agent.
C5_OnlyAgentsUpdate ==
    [][ /\ (resp'.op = "update_ticket" /\ resp'.caller # NoDoc
                /\ resp'.caller.role = CUSTOMER) =>
              /\ resp'.status = 403
              /\ resp'.body = [detail |-> "Only agents can update tickets"]
              /\ UNCHANGED <<users, tickets, now, token, inflight>>
        /\ (\E i \in 1..Len(tickets) : tickets'[i] # tickets[i]) =>
              \E r \in inflight \ inflight' :
                  /\ r.op = "update_ticket"
                  /\ r.current_user.role = AGENT
        /\ \A r \in inflight' :
              r.op = "update_ticket" => r.current_user.role = AGENT ]_vars

\* a customer was refused the update of a ticket of their own
C5_Witness ==
    /\ resp.op = "update_ticket"
    /\ resp.status = 403
    /\ resp.caller # NoDoc
    /\ resp.caller.role = CUSTOMER
    /\ \E i \in Stored(resp.arg.ticket_id) : tickets[i].customer_id = resp.caller.id

\* C6: a creation succeeds only for a customer, and then the ticket returned
\* is the one added to the store, with the request's fields, status open,
\* the caller's id and full name as customer and no agent; an agent is
\* answered 403 and no ticket is added; nothing else adds a ticket.
C6_CreateTicket ==
    [][ /\ (resp'.op = "create_ticket" /\ resp'.status = 200) =>
              /\ resp'.caller.role = CUSTOMER
              /\ resp'.body.status = "open"
              /\ resp'.body.customer_id = resp'.caller.id
              /\ resp'.body.customer_name = resp'.caller.full_name
              /\ resp'.body.agent_id = None
              /\ resp'.body.agent_name = None
              /\ resp'.body.title = resp'.arg.title
              /\ resp'.body.description = resp'.arg.description
              /\ resp'.body.category = resp'.arg.category
              /\ resp'.body.priority = resp'.arg.priority
              /\ resp'.body.id \notin { tickets[i].id : i \in 1..Len(tickets) }
              /\ tickets' = Append(tickets, resp'.body)
        /\ (resp'.op = "create_ticket" /\ resp'.caller # NoDoc
                /\ resp'.caller.role = AGENT) =>
              /\ resp'.status = 403
              /\ resp'.body = [detail |-> "Only customers can create tickets"]
              /\ UNCHANGED <<users, tickets, now, token, inflight>>
        /\ Len(tickets') # Len(tickets) =>
              (resp'.op = "create_ticket" /\ resp'.status = 200) ]_vars

\* Bob has created a ticket in a store that held one of Alice
C6_Witness ==
    /\ resp.op = "create_ticket"
    /\ resp.status = 200
    /\ Len(tickets) = 2
    /\ tickets[1].customer_id = "u1"
    /\ tickets[2] = resp.body
    /\ resp.body.customer_name = "Bob"
    /\ resp.body.status = "open"

\* the ids of the tickets of a list
Ids(items) == { items[i].id : i \in 1..Len(items) }

\* the ids of the stored tickets of a customer
OwnedIds(customer_id) ==
    { tickets[i].id : i \in { j \in 1..Len(tickets) : tickets[j].customer_id = customer_id } }

\* C7 as claimed: the list returned to a customer holds exactly the stored
\* tickets of that customer, and the list returned to an agent every stored
\* ticket.
C7_ListExact ==
    (resp.op = "get_tickets" /\ resp.status = 200) =>
        /\ \A i \in 1..Len(resp.body.items) : \E j \in 1..Len(tickets) :
              resp.body.items[i] = tickets[j]
        /\ resp.caller.role = CUSTOMER => Ids(resp.body.items) = OwnedIds(resp.caller.id)
        /\ resp.caller.role = AGENT =>
              /\ Ids(resp.body.items) = Ids(tickets)
              /\ \A n \in 1..Len(users) : OwnedIds(users[n].id) \subseteq Ids(resp.body.items)

\* C7: the list returned holds stored tickets only, each once, and at most
\* to_list_length of them; for a customer they are tickets of that customer,
\* all of them when the customer has at most to_list_length; for an agent
\* they are all stored tickets (a superset of every customer's list) when
\* the store holds at most to_list_length.
C7_ListScoped ==
    (resp.op = "get_tickets" /\ resp.status = 200) =>
        /\ \A i \in 1..Len(resp.body.items) : \E j \in 1..Len(tickets) :
              resp.body.items[i] = tickets[j]
        /\ Cardinality(Ids(resp.body.items)) = Len(resp.body.items)
        /\ Len(resp.body.items) <= to_list_length
        /\ resp.caller.role = CUSTOMER =>
              /\ Ids(resp.body.items) \subseteq OwnedIds(resp.caller.id)
              /\ Len(resp.body.items) < to_list_length =>
                    Ids(resp.body.items) = OwnedIds(resp.caller.id)
              /\ Cardinality(OwnedIds(resp.caller.id)) <= to_list_length =>
                    Ids(resp.body.items) = OwnedIds(resp.caller.id)
        /\ resp.caller.role = AGENT =>
              /\ Len(resp.body.items) < to_list_length => Ids(resp.body.items) = Ids(tickets)
              /\ Len(tickets) <= to_list_length =>
                    /\ Ids(resp.body.items) = Ids(tickets)
                    /\ \A n \in 1..Len(users) :
                          OwnedIds(users[n].id) \subseteq Ids(resp.body.items)

\* Alice lists her tickets while the store also holds one of Bob
C7_Witness ==
    /\ resp.op = "get_tickets"
    /\ resp.status = 200
    /\ resp.caller.id = "u1"
    /\ OwnedIds("u2") # {}
    /\ Len(resp.body.items) > 0
    /\ Len(resp.body.items) < Len(tickets)

\* C8: a fetch by id changes nothing stored; an id that is not stored is
\* answered 404 to every caller; a stored ticket is returned to an agent and
\* to the customer it belongs to, and any other customer is answered 403.
C8_GetTicket ==
    [][ (resp'.op = "get_ticket" /\ resp'.caller # NoDoc) =>
            /\ UNCHANGED <<users, tickets, now, token, inflight>>
            /\ Stored(resp'.arg.ticket_id) = {} =>
                  /\ resp'.status = 404
                  /\ resp'.body = [detail |-> "Ticket not found"]
            /\ \A i \in Stored(resp'.arg.ticket_id) :
                  IF resp'.caller.role = AGENT \/ tickets[i].customer_id = resp'.caller.id
                  THEN resp'.status = 200 /\ resp'.body = tickets[i]
                  ELSE resp'.status = 403 /\ resp'.body = [detail |-> "Access denied"] ]_vars

\* a customer was refused a stored ticket of another customer
C8_Witness ==
    /\ resp.op = "get_ticket"
    /\ resp.status = 403
    /\ resp.caller.role = CUSTOMER
    /\ \E i \in Stored(resp.arg.ticket_id) : tickets[i].customer_id # resp.caller.id

\* a field of an update request that carries a value
Supplied(value) == value # None /\ value # ""

\* the write of update request r leaves every other ticket as it was and
\* changes, of ticket i, the supplied fields among status, agent_id and
\* agent_name and nothing else but updated_at
FrameOfUpdate(r, i) ==
    LET ticket_update == r.arg.ticket_update
        old == tickets[i]
        new == tickets'[i]
    IN
    /\ new.status = IF Supplied(ticket_update.status) THEN ticket_update.status
                    ELSE old.status
    /\ new.agent_id = IF Supplied(ticket_update.agent_id) THEN ticket_update.agent_id
                      ELSE old.agent_id
    /\ new.agent_name = IF Supplied(ticket_update.agent_name) THEN ticket_update.agent_name
                        ELSE old.agent_name
    /\ \A k \in DOMAIN old \ {"status", "agent_id", "agent_name", "updated_at"} :
          new[k] = old[k]
    /\ DOMAIN new = DOMAIN old
    /\ Len(tickets') = Len(tickets)
    /\ \A j \in 1..Len(tickets) : j # i => tickets'[j] = tickets[j]

\* the update requests whose write this step applies
Written == { r \in inflight \ inflight' : r.op = "update_ticket" /\ r.at = "update_one" }

\* C9 as claimed: the write of an agent's update changes only the supplied
\* fields and sets updated_at to a time strictly later than the updated_at
\* the ticket had before the write.
C9_UpdatedAtLaterThanPrevious ==
    [][ \A r \in Written : \A i \in Stored(r.arg.ticket_id) :
            /\ FrameOfUpdate(r, i)
            /\ tickets'[i].updated_at > tickets[i].updated_at ]_vars

\* C9: the write of an agent's update changes only the supplied fields and
\* sets updated_at to the time the handler read, which is strictly later
\* than the updated_at of the ticket as the handler's lookup found it (and
\* so than the previous updated_at when no other update of the ticket was
\* written in between); the ticket returned is the stored one.
C9_PartialUpdate ==
    [][ /\ \A r \in Written : \A i \in Stored(r.arg.ticket_id) :
              /\ FrameOfUpdate(r, i)
              /\ tickets'[i].updated_at > r.ticket.updated_at
              /\ tickets'[i].updated_at <= now
              /\ tickets[i].updated_at = r.ticket.updated_at =>
                    tickets'[i].updated_at > tickets[i].updated_at
        /\ (resp'.op = "update_ticket" /\ resp'.status = 200) =>
              /\ Stored(resp'.arg.ticket_id) # {}
              /\ \A i \in Stored(resp'.arg.ticket_id) : resp'.body = tickets[i]
              /\ UNCHANGED tickets
        /\ (tickets' # tickets /\ Len(tickets') = Len(tickets)) => Written # {} ]_vars

\* an update with only a status was written to a ticket that had an agent:
\* the status is the new one, the agent is still there
C9_Witness ==
    \E r \in inflight : \E i \in Stored(r.arg.ticket_id) :
        /\ r.op = "update_ticket"
        /\ r.at = "find_one"
        /\ r.arg.ticket_update = [status |-> "in_progress", agent_id |-> None,
                                  agent_name |-> None]
        /\ tickets[i].status = "in_progress"
        /\ tickets[i].agent_id = "u3"
        /\ tickets[i].agent_name = "Carol"
        /\ tickets[i].updated_at = now
        /\ tickets[i].created_at < now

\* the number of stored tickets in the caller's scope (the caller's own for
\* a customer, all for an agent) that have one of the statuses
Count(current_user, statuses) ==
    Cardinality({ i \in 1..Len(tickets) :
                    /\ current_user.role = CUSTOMER => tickets[i].customer_id = current_user.id
                    /\ tickets[i].status \in statuses })

\* the figures of the caller's dashboard over the store as it is
Figures(current_user) ==
    IF current_user.role = CUSTOMER
    THEN << Count(current_user, TicketStatus), Count(current_user, {"open"}),
            Count(current_user, {"resolved"}) >>
    ELSE << Count(current_user, TicketStatus), Count(current_user, {"open"}),
            Count(current_user, {"in_progress"}), Count(current_user, {"resolved"}) >>

\* the record returned for a sequence of figures
StatsRecord(current_user, figures) ==
    IF current_user.role = CUSTOMER
    THEN [total_tickets |-> figures[1], open_tickets |-> figures[2],
          resolved_tickets |-> figures[3], role |-> "customer"]
    ELSE [total_tickets |-> figures[1], open_tickets |-> figures[2],
          in_progress_tickets |-> figures[3], resolved_tickets |-> figures[4],
          role |-> "agent"]

\* C10 as claimed: the stats returned are the figures over the stored
\* tickets in the caller's scope.
C10_StatsOfStore ==
    (resp.op = "get_dashboard_stats" /\ resp.status = 200) =>
        resp.body = StatsRecord(resp.caller, Figures(resp.caller))

\* C10: every figure of the stats is the count, over the store as it is when
\* the handler's query for that figure runs, of the tickets in the caller's
\* scope (own tickets for a customer, all for an agent) with the figure's
\* status; the record returned holds the figures so counted, in the
\* customer's or the agent's layout.
C10_StatsPerQuery ==
    [][ /\ \A r \in inflight' \ inflight : r.op = "get_dashboard_stats" =>
              LET n == Len(r.counts) IN
              /\ UNCHANGED tickets
              /\ r.counts[n] = Figures(r.current_user)[n]
              /\ n < Len(Figures(r.current_user))
              /\ n > 1 => \E q \in inflight \ inflight' :
                              /\ q.op = "get_dashboard_stats"
                              /\ q.current_user = r.current_user
                              /\ q.counts = SubSeq(r.counts, 1, n - 1)
        /\ (resp'.op = "get_dashboard_stats" /\ resp'.status = 200) =>
              /\ UNCHANGED tickets
              /\ \E q \in inflight \ inflight' :
                    LET n == Len(Figures(q.current_user)) IN
                    /\ q.op = "get_dashboard_stats"
                    /\ q.current_user = resp'.caller
                    /\ Len(q.counts) = n - 1
                    /\ resp'.body = StatsRecord(resp'.caller,
                                        Append(q.counts, Figures(resp'.caller)[n])) ]_vars

\* Alice, with one open, one resolved and one in_progress ticket in a store
\* that also holds a ticket of Bob, is told total 3, open 1, resolved 1
C10_Witness ==
    /\ resp.op = "get_dashboard_stats"
    /\ resp.status = 200
    /\ resp.caller.id = "u1"
    /\ resp.body = [total_tickets |-> 3, open_tickets |-> 1, resolved_tickets |-> 1,
                    role |-> "customer"]
    /\ Count(resp.caller, {"in_progress"}) = 1
    /\ OwnedIds("u2") # {}

\* the fields of a ticket that an update may change
Mutable == {"status", "agent_id", "agent_name", "updated_at"}

\* C11: no step removes or reorders a stored ticket or changes a field of a
\* stored ticket other than status, agent_id, agent_name and updated_at: id,
\* customer_id, customer_name, created_at, title, description, category and
\* priority stay as they were when the ticket was created.
C11_CreationFieldsKept ==
    [][ /\ Len(tickets') >= Len(tickets)
        /\ \A i \in 1..Len(tickets) :
              /\ DOMAIN tickets'[i] = DOMAIN tickets[i]
              /\ \A k \in DOMAIN tickets[i] \ Mutable : tickets'[i][k] = tickets[i][k]
        /\ \A i \in (Len(tickets) + 1)..Len(tickets') :
              /\ resp'.op = "create_ticket"
              /\ tickets'[i] = resp'.body
              /\ tickets'[i].customer_id = resp'.caller.id
              /\ tickets'[i].customer_name = resp'.caller.full_name
              /\ tickets'[i].created_at = now' ]_vars

\* Alice's ticket, resolved by Carol after Bob created his, still stands
\* first in the store with its creation time
C11_Witness ==
    /\ Len(tickets) = 2
    /\ tickets[1].status = "resolved"
    /\ tickets[1].agent_id = "u3"
    /\ tickets[1].created_at = 1
    /\ tickets[1].updated_at > tickets[2].created_at
    /\ tickets[1].customer_id = "u1"
    /\ tickets[2].customer_id = "u2"

TicketEndpoints == {"create_ticket", "get_tickets", "get_ticket", "update_ticket"}

\* the stores that held fewer tickets: the first n stored tickets
Prefixes == { SubSeq(tickets, 1, n) : n \in 0..Len(tickets) }

\* the role alone decides who is refused a creation or an update, and no
\* logged-in caller is refused the list
DecidedByRole ==
    (resp.op \in TicketEndpoints /\ resp.caller # NoDoc) =>
        /\ resp.op = "create_ticket" =>
              /\ resp.caller.role = CUSTOMER => resp.status = 200
              /\ resp.caller.role = AGENT =>
                    /\ resp.status = 403
                    /\ resp.body = [detail |-> "Only customers can create tickets"]
        /\ resp.op = "update_ticket" =>
              /\ resp.caller.role = AGENT => resp.status \in {200, 404}
              /\ resp.caller.role = CUSTOMER =>
                    /\ resp.status = 403
                    /\ resp.body = [detail |-> "Only agents can update tickets"]
        /\ resp.op = "get_tickets" => resp.status = 200

\* C12 as claimed: on every ticket endpoint a refused caller (401 or 403)
\* gets what the role decides, and for a fetch by id the answer it would get
\* from any store that held fewer tickets, the requested one or not.
C12_DecisionBeforeStore ==
    /\ DecidedByRole
    /\ (resp.op = "get_ticket" /\ resp.status \in {401, 403}) =>
          \A coll \in Prefixes :
              get_ticket_response(resp.cred, resp.arg.ticket_id, now, users, coll) = resp

\* C12: who is refused a creation or an update is decided by the role, for
\* stored and unknown ticket ids alike, and the list is refused to no
\* logged-in caller; a fetch by id with a token that fails authentication
\* is answered 401 whatever the store holds; a customer is refused a fetch
\* (403) after the lookup, because the ticket found is another customer's,
\* and the same request is answered 404 by a store without that ticket.
C12_RoleBeforeStore ==
    /\ DecidedByRole
    /\ (resp.op = "get_ticket" /\ resp.status = 401) =>
          \A coll \in Prefixes :
              get_ticket_response(resp.cred, resp.arg.ticket_id, now, users, coll) = resp
    /\ (resp.op = "get_ticket" /\ resp.status = 403) =>
          /\ resp.caller.role = CUSTOMER
          /\ Stored(resp.arg.ticket_id) # {}
          /\ \A i \in Stored(resp.arg.ticket_id) :
                /\ tickets[i].customer_id # resp.caller.id
                /\ get_ticket_response(resp.cred, resp.arg.ticket_id, now, users,
                                       <<tickets[i]>>) = resp
          /\ \A coll \in Prefixes :
                get_ticket_response(resp.cred, resp.arg.ticket_id, now, users,
                                    coll).status =
                    IF \E i \in 1..Len(coll) : coll[i].id = resp.arg.ticket_id
                    THEN 403 ELSE 404

\* a customer was refused the update of a ticket id that is not stored,
\* while the store holds a ticket
C12_Witness ==
    /\ resp.op = "update_ticket"
    /\ resp.status = 403
    /\ resp.caller # NoDoc
    /\ resp.caller.role = CUSTOMER
    /\ Len(tickets) > 0
    /\ Stored(resp.arg.ticket_id) = {}

\* C13 as claimed: in every step the updated_at of every stored ticket stays
\* or grows, and it is never earlier than the ticket's created_at.
C13_UpdatedAtMonotonic ==
    [][ \A i \in 1..Len(tickets) :
            /\ tickets'[i].updated_at >= tickets[i].updated_at
            /\ tickets'[i].updated_at >= tickets'[i].created_at ]_vars

\* C13: the updated_at of every stored ticket is never earlier than its
\* created_at nor later than the clock; a step lowers it only by writing an
\* update whose lookup ran before another update of the same ticket was
\* written, and then to a time later than the updated_at that lookup found.
C13_UpdatedAtBounds ==
    [][ /\ \A i \in 1..Len(tickets') :
              /\ tickets'[i].created_at <= tickets'[i].updated_at
              /\ tickets'[i].updated_at <= now'
        /\ \A i \in 1..Len(tickets) :
              tickets'[i].updated_at < tickets[i].updated_at =>
                  \E r \in Written :
                      /\ r.arg.ticket_id = tickets[i].id
                      /\ r.ticket.updated_at < tickets[i].updated_at
                      /\ r.ticket.updated_at < tickets'[i].updated_at ]_vars

\* two updates of one ticket have both been written and the ticket carries
\* the earlier of their timestamps, later than its created_at
C13_Witness ==
    \E q, r \in inflight : \E i \in Stored(r.arg.ticket_id) :
        /\ q.op = "update_ticket" /\ q.at = "find_one"
        /\ r.op = "update_ticket" /\ r.at = "find_one"
        /\ q.arg.ticket_id = r.arg.ticket_id
        /\ r.update_data.updated_at < q.update_data.updated_at
        /\ tickets[i].updated_at = r.update_data.updated_at
        /\ tickets[i].created_at < tickets[i].updated_at

\* the status figures of a stats record add up to at most its total
SumWithinTotal(body) ==
    IF body.role = "agent"
    THEN body.open_tickets + body.in_progress_tickets + body.resolved_tickets
            <= body.total_tickets
    ELSE body.open_tickets + body.resolved_tickets <= body.total_tickets

\* C14 as claimed: in every stats record returned the status figures add up
\* to at most the total.
C14_StatsConsistent ==
    (resp.op = "get_dashboard_stats" /\ resp.status = 200) => SumWithinTotal(resp.body)

\* C14: every figure of a stats record returned is at least 0 and at most the
\* number of stored tickets in the caller's scope; when the figures counted
\* by the earlier queries of the request still hold of the store at its
\* last query (as they do when no ticket was created or updated in
\* between), the record is that of this one store state and its status
\* figures add up to at most the total.
C14_StatsConsistentWhenQuiet ==
    [][ (resp'.op = "get_dashboard_stats" /\ resp'.status = 200) =>
            /\ \A k \in DOMAIN resp'.body \ {"role"} :
                  /\ resp'.body[k] >= 0
                  /\ resp'.body[k] <= Count(resp'.caller, TicketStatus)
            /\ \A q \in inflight \ inflight' :
                  (/\ q.op = "get_dashboard_stats"
                   /\ \A k \in 1..Len(q.counts) : q.counts[k] = Figures(q.current_user)[k]) =>
                      /\ resp'.body = StatsRecord(resp'.caller, Figures(resp'.caller))
                      /\ SumWithinTotal(resp'.body) ]_vars

\* Carol is told the figures of the store after a ticket was created: total
\* 5, of which 3 open, 1 in progress and 1 resolved
C14_Witness ==
    /\ resp.op = "get_dashboard_stats"
    /\ resp.status = 200
    /\ resp.caller.role = AGENT
    /\ Len(tickets) = 5
    /\ resp.body = [total_tickets |-> 5, open_tickets |-> 3, in_progress_tickets |-> 1,
                    resolved_tickets |-> 1, role |-> "agent"]

====
